---- MODULE Spec2Model ----
(***************************************************************************)
(* A model of the yem Texas Hold'em bot: the pot ledger and players of     *)
(* games.py, the table and game manager of holdem.py, the listener of      *)
(* yem_listener.py, the bank of directory.py and the message dispatch of   *)
(* main.py.                                                                *)
(*                                                                         *)
(* Python raises where the source calls a method with the wrong arguments, *)
(* reads an attribute a class does not define or assigns to an item of a   *)
(* class without __setitem__.  Those exceptions are modelled where the     *)
(* source raises them: an operation returns the name of the exception it   *)
(* ends with ("none" when it returns normally) beside the values it had    *)
(* assigned before raising.                                                *)
(*                                                                         *)
(* Seats are 1..Len(players); the indices dealer_index and better_index    *)
(* keep the source's 0-based values.  A player object is its seat.         *)
(*                                                                         *)
(* Two specifications:                                                     *)
(*   Spec        the manager driven through on_message, from the state     *)
(*               after construction (PRE_GAME, empty table) and from       *)
(*               tables set up for the first betting street (players       *)
(*               seated with a stack, two hole cards each, a ledger        *)
(*               Pots(tuple(players)) holding what was wagered so far).    *)
(*               A handler is suspended at its awaits, where other         *)
(*               handlers run: discord.py runs every on_message event as   *)
(*               a task of its own.                                        *)
(*   SpecLedger  the operations of the ledger called one at a time:        *)
(*               GamePlayer.increase_bet, Pots.contribute,                 *)
(*               HoldEmGameManager.create_side_pot, HoldEmTable            *)
(*               .new_side_pot.                                            *)
(***************************************************************************)
EXTENDS Integers, Sequences, FiniteSets, Bags, TLC

\* ------------------------------------------------------------- bounds

NumMembers == 3
MaxTasks == 2
MaxStack == 2
MaxContribution == 1
NumShuffles == 1
MaxPots == 2
MaxWager == 2

\* PokerHandClass values, tie-break cards and card ranks of the hands shown down.
MaxHandClass == 2

MaxHighCards == 2

MaxHighRank == 2

\* The number of cards of the hands evaluated on their own.
MinHandCards == 5

MaxHandCards == 7

\* ------------------------------------------------- program constants

max_players == 6
min_players == 1
min_bet == 2
buy_in == 50
initial_deposit == 1000
DeckSize == 52

\* ------------------------------------------------------------ helpers

Members == 1..NumMembers

\* Python's None where a game state is expected, and where a member is.
None == "None"

NoMember == 0

RECURSIVE SumOver(_, _)
SumOver(f, S) ==
    IF S = {} THEN 0
    ELSE LET x == CHOOSE y \in S : TRUE IN f[x] + SumOver(f, S \ {x})

SumSeq(s) == SumOver(s, DOMAIN s)

MaxOf(S) == CHOOSE x \in S : \A y \in S : y <= x

MinOf(S) == CHOOSE x \in S : \A y \in S : x <= y

\* ------------------------------------------------------------ state

VARIABLES
    game_state,       \* HoldEmGameManager.game_state
    user,             \* EventListener.user: the member listened to, or NoMember
    bank,             \* DirectoryManager.current_directory: member -> bankroll
    players,          \* Table.players: the member of each seat
    table_money,      \* GamePlayer.table_money of each seat
    is_active,        \* GamePlayer.is_active of each seat
    has_had_turn,     \* HoldEmPlayer.has_had_turn of each seat
    hand,             \* HoldEmPlayer.hand of each seat: a sequence of cards
    pots,             \* Pots.pots: each a function seat -> contribution; << >> is pot = None
    active_pot,       \* Pots.active_pot, as its index in pots (0: no ledger)
    dealer_index,     \* HoldEmTable.dealer_index
    better_index,     \* HoldEmTable.better_index
    last_raise,       \* HoldEmTable.last_raise
    deck,             \* Deck.cards
    community_cards,  \* HoldEmTable.community_cards
    tasks,            \* the handlers suspended at an await: a bag of [pc, player]
    event,            \* what ran last: a message with its outcome, or a resumed handler
    hung,             \* the event loop is inside a loop that never returns
    moved             \* history: chips debited from stacks towards the ledger

tableVars == <<players, table_money, is_active, has_had_turn, hand, pots, active_pot,
               dealer_index, better_index, last_raise, deck, community_cards>>

mgrVars == <<game_state, user, bank>>

vars == <<game_state, user, bank, players, table_money, is_active, has_had_turn, hand,
          pots, active_pot, dealer_index, better_index, last_raise, deck,
          community_cards, tasks, event, hung, moved>>

Seats == 1..Len(players)

\* ------------------------------------------------------ games.py: Pot

\* A positional argument as Python passes it: an int or a Pot object.
IntArg(n) == [kind |-> "int", v |-> n]

PotArg(k) == [kind |-> "Pot", v |-> k]

\* Pot.__init__: every participant starts at 0.
Pot(participants) == [p \in participants |-> 0]

\* Pot.total
total(pot) == SumOver(pot, DOMAIN pot)

\* Pot.largest_contribution: max() of an empty sequence raises ValueError.
largest_contribution(pot) == MaxOf({pot[p] : p \in DOMAIN pot})

\* Pot.smallest_contribution
smallest_contribution(pot) == MinOf({pot[p] : p \in DOMAIN pot})

\* Pots.total
PotsTotal == SumOver([k \in DOMAIN pots |-> total(pots[k])], DOMAIN pots)

\* pot[player] = value.  class Pot defines __getitem__ and no __setitem__:
\* the statement raises TypeError and stores nothing.
Pot_setitem(pot, player, value) == [error |-> "TypeError", pot |-> pot]

\* pot[player] += amount: __getitem__ (KeyError for a player the pot does not
\* hold), the addition, then the item assignment.
Pot_iadd(pot, player, amount) ==
    IF player \notin DOMAIN pot
    THEN [error |-> "KeyError", pot |-> pot]
    ELSE Pot_setitem(pot, player, pot[player] + amount)

\* increase_bet without its test of the amount against the stack.
increase_bet_overdraw(self, pot, amount) ==
    LET same(e) == [error |-> e, table_money |-> table_money, pots |-> pots, debit |-> 0]
    IN  IF amount.kind # "int" THEN same("TypeError")
        ELSE IF amount.v < 0 THEN same("ValueError")
        ELSE LET debited == [table_money EXCEPT ![self] = @ - amount.v]
                 r == IF pot.kind # "Pot"
                      THEN [error |-> "TypeError", pot |-> << >>]
                      ELSE Pot_iadd(pots[pot.v], self, amount.v)
             IN  [error |-> r.error,
                  table_money |-> debited,
                  pots |-> IF pot.kind = "Pot" THEN [pots EXCEPT ![pot.v] = r.pot] ELSE pots,
                  debit |-> amount.v]

\* GamePlayer.increase_bet(self, pot, amount), given the two arguments as passed.
\* The result is the exception it ends with, table_money and pots as it leaves
\* them, and the chips it debited.
increase_bet(self, pot, amount) ==
    LET same(e) == [error |-> e, table_money |-> table_money, pots |-> pots, debit |-> 0]
    IN  IF amount.kind # "int" THEN same("TypeError")
        ELSE IF amount.v < 0 THEN same("ValueError")
        ELSE IF amount.v >= table_money[self] THEN same("InsufficientFunds")
        ELSE LET debited == [table_money EXCEPT ![self] = @ - amount.v]
                 r == IF pot.kind # "Pot"
                      THEN [error |-> "TypeError", pot |-> << >>]
                      ELSE Pot_iadd(pots[pot.v], self, amount.v)
             IN  [error |-> r.error,
                  table_money |-> debited,
                  pots |-> IF pot.kind = "Pot" THEN [pots EXCEPT ![pot.v] = r.pot] ELSE pots,
                  debit |-> amount.v]

\* A call player.increase_bet(*args): Python binds the positional arguments
\* before the body runs and raises TypeError when one is missing.
increase_bet_call(self, args) ==
    IF Len(args) # 2
    THEN [error |-> "TypeError", table_money |-> table_money, pots |-> pots, debit |-> 0]
    ELSE increase_bet(self, args[1], args[2])

\* Pots.contribute(player, amount)
contribute(player, amount) ==
    LET r == Pot_iadd(pots[active_pot], player, amount)
    IN  [error |-> r.error, pots |-> [pots EXCEPT ![active_pot] = r.pot]]

\* Pots.create_side_pot(players), through Table.create_side_pot
Pots_create_side_pot(participants, ledger) ==
    [pots |-> Append(ledger, Pot(participants)), active_pot |-> Len(ledger) + 1]

\* The list both HoldEmGameManager.create_side_pot and HoldEmTable.new_side_pot build.
players_in_side_pot(money) == {p \in Seats : is_active[p] /\ money[p] > 0}

\* HoldEmGameManager.create_side_pot, on the stacks and the ledger as they are
\* when it is called.
create_side_pot(money, ledger) == Pots_create_side_pot(players_in_side_pot(money), ledger)

\* HoldEmTable.new_side_pot: it calls self.create_side_pot() without the
\* players argument, which raises TypeError before anything is moved.
new_side_pot ==
    IF DOMAIN pots[active_pot] = {}
    THEN [error |-> "ValueError", pots |-> pots, active_pot |-> active_pot]
    ELSE [error |-> "TypeError", pots |-> pots, active_pot |-> active_pot]

\* ------------------------------------------------------------ events

\* What ran last: a message handled up to its first await ("message"), a
\* suspended handler resumed ("resume"), or a ledger operation called ("call").
Ev(type, author, content, result) ==
    [type |-> type, author |-> author, content |-> content, result |-> result]

NoEvent == Ev("init", 0, << >>, "none")

\* ------------------------------------- the ledger operations, one at a time

\* A table of n seats with stacks and wagers drawn from the bounds: one pot
\* holding every seat, as Pots.__init__ builds it, with the wagers written to
\* its dict Pot.contributions.
TableOf(n, stacks, wagers, active) ==
    /\ players = [i \in 1..n |-> i]
    /\ table_money = stacks
    /\ is_active = active
    /\ has_had_turn = [i \in 1..n |-> FALSE]
    /\ pots = <<wagers>>
    /\ active_pot = 1
    /\ moved = SumOver(wagers, 1..n)
    /\ dealer_index = 0
    /\ better_index = 0
    /\ last_raise = 0

InitLedger ==
    /\ \E n \in 2..NumMembers :
         \E stacks \in [1..n -> 0..MaxStack], wagers \in [1..n -> 0..MaxWager],
            active \in [1..n -> BOOLEAN] :
              TableOf(n, stacks, wagers, active)
    /\ game_state = "FIRST_ROUND"
    /\ user = NoMember
    /\ bank = [m \in Members |-> initial_deposit]
    /\ hand = [i \in Seats |-> << >>]
    /\ deck = << >>
    /\ community_cards = << >>
    /\ tasks = EmptyBag
    /\ event = NoEvent
    /\ hung = FALSE

LedgerFrame ==
    UNCHANGED <<game_state, user, bank, players, is_active, has_had_turn, hand,
                dealer_index, better_index, last_raise, deck, community_cards,
                tasks, hung>>

\* player.increase_bet(pot.active_pot, amount)
IncreaseBet(p, amount) ==
    LET r == increase_bet_call(p, <<PotArg(active_pot), IntArg(amount)>>)
    IN  /\ table_money' = r.table_money
        /\ pots' = r.pots
        /\ moved' = moved + r.debit
        /\ event' = Ev("call", 0, <<"increase_bet">>, r.error)
        /\ UNCHANGED active_pot
        /\ LedgerFrame

\* pot.contribute(player, amount)
Contribute(p, amount) ==
    LET r == contribute(p, amount)
    IN  /\ pots' = r.pots
        /\ event' = Ev("call", 0, <<"contribute">>, r.error)
        /\ UNCHANGED <<table_money, active_pot, moved>>
        /\ LedgerFrame

\* manager.create_side_pot()
CreateSidePot ==
    /\ Len(pots) < MaxPots
    /\ pots' = create_side_pot(table_money, pots).pots
    /\ active_pot' = create_side_pot(table_money, pots).active_pot
    /\ event' = Ev("call", 0, <<"create_side_pot">>, "none")
    /\ UNCHANGED <<table_money, moved>>
    /\ LedgerFrame

\* table.new_side_pot()
NewSidePot ==
    /\ pots' = new_side_pot.pots
    /\ active_pot' = new_side_pot.active_pot
    /\ event' = Ev("call", 0, <<"new_side_pot">>, new_side_pot.error)
    /\ UNCHANGED <<table_money, moved>>
    /\ LedgerFrame

\* continue_without_bets_check up to continue_game_no_bets: the wager of the
\* lone participant of the active pot is credited to its stack
\* (change_table_money), then pot[player] = 0 raises TypeError.
Refund ==
    LET pot == pots[active_pot]
    IN  /\ Cardinality(DOMAIN pot) <= 1
        /\ IF DOMAIN pot = {}
           THEN /\ event' = Ev("call", 0, <<"refund">>, "none")
                /\ UNCHANGED <<table_money, moved>>
           ELSE LET player == CHOOSE p \in DOMAIN pot : TRUE
                IN  IF table_money[player] + pot[player] < 0
                    THEN /\ event' = Ev("call", 0, <<"refund">>, "InsufficientFunds")
                         /\ UNCHANGED <<table_money, moved>>
                    ELSE /\ table_money' = [table_money EXCEPT ![player] = @ + pot[player]]
                         /\ moved' = moved - pot[player]
                         /\ event' = Ev("call", 0, <<"refund">>,
                                        Pot_setitem(pot, player, 0).error)
        /\ UNCHANGED <<pots, active_pot>>
        /\ LedgerFrame

NextLedger ==
    \/ \E p \in Seats, amount \in -1..MaxStack : IncreaseBet(p, amount)
    \/ \E p \in Seats, amount \in 0..MaxStack : Contribute(p, amount)
    \/ CreateSidePot
    \/ NewSidePot
    \/ Refund

SpecLedger == InitLedger /\ [][NextLedger]_vars

\* ------------------------------------------------------ cards and deck

\* Card(suit, rank), suits 1..4 and ranks 1..13 (1 the Ace), as one number.
Card(suit, rank) == (suit - 1) * 13 + rank

suit(card) == ((card - 1) \div 13) + 1

rank(card) == ((card - 1) % 13) + 1

\* HoldEmDeck.build before the shuffle: every rank of every suit, suit by suit.
BuiltDeck == [i \in 1..DeckSize |-> Card(((i - 1) \div 13) + 1, ((i - 1) % 13) + 1)]

\* random.shuffle: one of NumShuffles permutations (a step coprime to 52
\* walks the built deck).
Shuffled(k) == [i \in 1..DeckSize |-> BuiltDeck[(((2 * k + 1) * i + 7 * k) % DeckSize) + 1]]

Shuffles == {Shuffled(k) : k \in 1..NumShuffles}

\* Deck.draw(n): n times cards.pop(), the last card first.
draw(d, n) ==
    [cards |-> [i \in 1..n |-> d[Len(d) + 1 - i]], deck |-> SubSeq(d, 1, Len(d) - n)]

\* HoldEmTable.deal_player_hands over seats 1..n from deck d.
RECURSIVE deal_player_hands(_, _, _)
deal_player_hands(d, hands, i) ==
    IF i > Len(hands) THEN [deck |-> d, hand |-> hands]
    ELSE deal_player_hands(draw(d, 2).deck, [hands EXCEPT ![i] = @ \o draw(d, 2).cards], i + 1)

\* HoldEmTable.deal_community_cards(round)
deal_community_cards(round) ==
    IF round = "SECOND_ROUND" THEN draw(deck, 3)
    ELSE IF round \in {"THIRD_ROUND", "FOURTH_ROUND"} THEN draw(deck, 1)
    ELSE [cards |-> << >>, deck |-> deck]

\* ------------------------------------------------- holdem.py: the table

HoldEmGameState == {"PRE_GAME", "GAME_START", "FIRST_ROUND", "SECOND_ROUND",
                    "THIRD_ROUND", "FOURTH_ROUND", "SHOWDOWN", "GAME_END"}

BettingRounds == {"FIRST_ROUND", "SECOND_ROUND", "THIRD_ROUND", "FOURTH_ROUND"}

\* HoldEmGameState.next_round: None for a state that is no betting street.
next_round(state) ==
    CASE state = "FIRST_ROUND" -> "SECOND_ROUND"
      [] state = "SECOND_ROUND" -> "THIRD_ROUND"
      [] state = "THIRD_ROUND" -> "FOURTH_ROUND"
      [] state = "FOURTH_ROUND" -> "SHOWDOWN"
      [] OTHER -> None

\* HoldEmTable.betting_complete
betting_complete ==
    LET pot == pots[active_pot]
    IN  /\ \A player \in Seats :
             \/ pot[player] = largest_contribution(pot)
             \/ table_money[player] = 0
             \/ is_active[player] = FALSE
        /\ \A player \in Seats : has_had_turn[player]

\* HoldEmTable.move_better: the first active seat after better_index, going
\* round; the loop has no exit when no seat is active.
move_better ==
    LET n == Len(players)
        steps == {k \in 1..n : is_active[((better_index + k) % n) + 1]}
    IN  IF steps = {} THEN [hangs |-> TRUE, better_index |-> better_index]
        ELSE [hangs |-> FALSE, better_index |-> (better_index + MinOf(steps)) % n]

\* HoldEmTable.ask_player_to_bet for the seat at index b: call_or_check is
\* bound only when the seat owes nothing, and read in either case.
ask_player_to_bet(b) ==
    LET pot == pots[active_pot]
        difference == largest_contribution(pot) - pot[b + 1]
    IN  IF difference = 0 THEN "none" ELSE "UnboundLocalError"

\* HoldEmTable.showdown with Table.award_pot: with no active player
\* rank_players_by_hands indexes an empty list; otherwise award_pot reads
\* pot.players_in_pot, which Pot does not define.  Nothing is paid.
showdown ==
    IF {p \in Seats : is_active[p]} = {} THEN "IndexError" ELSE "AttributeError"

\* ---------------------------------------------- holdem.py: the commands

\* int(text) of a word of a message: the decimal strings the model sends.
Digits == <<"0", "1", "2", "3", "4", "5", "6", "7", "8", "9">>

IsInt(word) == word = "-1" \/ \E i \in DOMAIN Digits : Digits[i] = word

int(word) == IF word = "-1" THEN -1 ELSE (CHOOSE i \in DOMAIN Digits : Digits[i] = word) - 1

\* What a command handler returns: the exception it ends with and the table
\* values it leaves.
Outcome(error, money, ledger, debit, raised, all_in) ==
    [error |-> error, table_money |-> money, pots |-> ledger, debit |-> debit,
     last_raise |-> raised, all_in |-> all_in]

Rejected(error) == Outcome(error, table_money, pots, 0, last_raise, FALSE)

\* pot.largest_contribution - pot[player] on the active pot
to_call(player) ==
    largest_contribution(pots[active_pot]) - pots[active_pot][player]

\* HoldEmGameManager.player_call up to its first await
player_call(player) ==
    LET all_in == ~(table_money[player] > to_call(player))
        amount == IF all_in THEN table_money[player] ELSE to_call(player)
        r == increase_bet_call(player, <<IntArg(amount)>>)
    IN  Outcome(r.error, r.table_money, r.pots, r.debit, last_raise, all_in)

\* A player_raise that records the raise before it has checked the stack:
\* what a rejected command must not do.
player_raise_early(player, word) ==
    IF ~IsInt(word) THEN Rejected("InvalidBet")
    ELSE LET raise_amount == int(word)
         IN  IF raise_amount + to_call(player) > table_money[player]
             THEN Outcome("InsufficientFunds", table_money, pots, 0, raise_amount, FALSE)
             ELSE Rejected("InvalidBet")

\* A player_raise that takes the all-in exception at its word: a raise that
\* with the call equals the stack is paid into the active pot and recorded as
\* the last raise, whatever its amount.
player_raise_all_in(player, word) ==
    IF ~IsInt(word) THEN Rejected("InvalidBet")
    ELSE LET raise_amount == int(word)
             amount == raise_amount + to_call(player)
         IN  IF amount = table_money[player] /\ amount >= 0
             THEN Outcome("none", [table_money EXCEPT ![player] = 0],
                          [pots EXCEPT ![active_pot][player] = @ + amount],
                          amount, raise_amount, TRUE)
             ELSE Rejected("InvalidBet")

\* HoldEmGameManager.player_raise up to its first await
player_raise(player, word) ==
    IF ~IsInt(word) THEN Rejected("InvalidBet")
    ELSE LET raise_amount == int(word)
             all_in == raise_amount + to_call(player) = table_money[player]
         IN  IF ~all_in /\ raise_amount < last_raise THEN Rejected("InvalidBet")
             ELSE IF ~all_in /\ raise_amount < min_bet THEN Rejected("InvalidBet")
             ELSE IF raise_amount + to_call(player) > table_money[player]
                  THEN Rejected("InsufficientFunds")
             ELSE LET r == increase_bet_call(player, <<IntArg(raise_amount + to_call(player))>>)
                  IN  Outcome(r.error, r.table_money, r.pots, r.debit,
                              IF r.error = "none" THEN raise_amount ELSE last_raise, all_in)

\* A player_check that lets every check through.
player_check_any(player) == Outcome("none", table_money, pots, 0, last_raise, FALSE)

\* HoldEmGameManager.player_check
player_check(player) ==
    IF to_call(player) > 0 THEN Rejected("InvalidBet")
    ELSE IF ~(to_call(player) = 0) THEN Rejected("InvalidBet")
    ELSE Outcome("none", table_money, pots, 0, last_raise, FALSE)

\* The try block of betting_input: the command of the current bettor.
command(player, content) ==
    CASE content[1] = "fold" -> Outcome("none", table_money, pots, 0, last_raise, FALSE)
      [] content[1] = "call" -> player_call(player)
      [] content[1] = "raise" ->
            IF Len(content) < 2 THEN Rejected("InvalidUserResponse")
            ELSE player_raise(player, content[2])
      [] content[1] = "check" -> player_check(player)
      [] OTHER -> Rejected("return")

\* HoldEmGameManager.post_blinds: without a ledger self.table.pot.active_pot
\* raises; with one, increase_bet is handed the amount where it takes the pot
\* and the pot where it takes the amount.
post_blinds ==
    IF pots = << >> THEN "AttributeError"
    ELSE LET small_blind_index == (dealer_index + 1) % Len(players)
             r == increase_bet_call(small_blind_index + 1,
                                    <<IntArg(min_bet \div 2), PotArg(active_pot)>>)
         IN  r.error

\* ------------------------------------------------- the manager's handlers

Task(pc, player, all_in) == [pc |-> pc, player |-> player, all_in |-> all_in]

Suspend(t) == tasks (+) SetToBag({t})

Finish(t) == tasks (-) SetToBag({t})

\* EventListener.process_message, listening on and no channel filter set
process_message(author) == user = NoMember \/ user = author

\* A message no handler acts on.
Ignore(author, content) ==
    /\ event' = Ev("message", author, << >>, "ignored")
    /\ UNCHANGED <<tableVars, mgrVars, tasks, hung, moved>>

\* A pregame command that ends with an exception or only answers.
Answer(author, content, result) ==
    /\ event' = Ev("message", author, content, result)
    /\ UNCHANGED <<tableVars, mgrVars, tasks, hung, moved>>

\* HoldEmGameManager.player_join with DirectoryManager.withdraw_money and
\* Table.add_player
player_join(author, content) ==
    IF Len(players) >= max_players THEN Answer(author, content, "TableFull")
    ELSE IF bank[author] - buy_in < 0 THEN Answer(author, content, "InsufficientFunds")
    ELSE /\ bank' = [bank EXCEPT ![author] = @ - buy_in]
         /\ players' = Append(players, author)
         /\ table_money' = Append(table_money, buy_in)
         /\ is_active' = Append(is_active, TRUE)
         /\ has_had_turn' = Append(has_had_turn, FALSE)
         /\ hand' = Append(hand, << >>)
         /\ event' = Ev("message", author, content, "none")
         /\ UNCHANGED <<game_state, user, pots, active_pot, dealer_index, better_index,
                        last_raise, deck, community_cards, tasks, hung, moved>>

\* HoldEmGameManager.player_leave: deposit_all_money reads table_money of the
\* Member it is handed, which has none.
player_leave(author, content) == Answer(author, content, "AttributeError")

\* HoldEmGameManager.game_start: nothing else runs on the table while it is
\* suspended in GAME_START, so its steps are taken at once.
game_start(author, content) ==
    IF Len(players) < min_players THEN Answer(author, content, "NotEnoughPlayers")
    ELSE LET dealt == deal_player_hands(deck, hand, 1)
             blinds == post_blinds
         IN  /\ game_state' = IF blinds = "none" THEN "FIRST_ROUND" ELSE "GAME_START"
             /\ deck' = dealt.deck
             /\ hand' = dealt.hand
             /\ event' = Ev("message", author, content, blinds)
             /\ UNCHANGED <<user, bank, players, table_money, is_active, has_had_turn,
                            pots, active_pot, dealer_index, better_index, last_raise,
                            community_cards, tasks, hung, moved>>

\* HoldEmGameManager.pregame_input
pregame_input(author, content) ==
    CASE content[1] = "join" -> player_join(author, content)
      [] content[1] = "leave" -> player_leave(author, content)
      [] content[1] = "start" -> game_start(author, content)
      [] content[1] = "bank" -> Answer(author, content, "none")
      [] OTHER -> Ignore(author, content)

\* A betting_input that takes a command from anyone.
from_any_author(author) == author \in Members

\* The test betting_input opens with: the message is from the user of the
\* player at better_index.
from_current_better(author) == author = players[better_index + 1]

\* HoldEmGameManager.betting_input up to its first await: the command of the
\* current bettor is validated and applied, and the handler is suspended in
\* the send that announces it; a command that raises is answered with the
\* error and the handler returns.
betting_input(author, content) ==
    IF ~from_current_better(author) THEN Ignore(author, content)
    ELSE LET player == better_index + 1
             r == command(player, content)
         IN  IF r.error = "return" THEN Ignore(author, content)
             ELSE /\ r.error = "none" => BagCardinality(tasks) < MaxTasks
                  /\ table_money' = r.table_money
                  /\ pots' = r.pots
                  /\ moved' = moved + r.debit
                  /\ last_raise' = r.last_raise
                  /\ is_active' = IF content[1] = "fold"
                                  THEN [is_active EXCEPT ![player] = FALSE]
                                  ELSE is_active
                  /\ tasks' = IF r.error = "none"
                              THEN Suspend(Task("acted", player, r.all_in))
                              ELSE tasks
                  /\ event' = Ev("message", author, content, r.error)
                  /\ UNCHANGED <<mgrVars, players, has_had_turn, hand, active_pot,
                                 dealer_index, better_index, deck, community_cards, hung>>

\* HoldEmGameManager.handle_input
handle_input(author, content) ==
    IF game_state = "PRE_GAME" THEN pregame_input(author, content)
    ELSE IF game_state \in BettingRounds THEN betting_input(author, content)
    ELSE Ignore(author, content)

\* main.on_message
on_message(author, content) ==
    /\ ~hung
    /\ IF process_message(author) THEN handle_input(author, content)
       ELSE Ignore(author, content)

\* HoldEmTable.print_pot_and_bets reads active_pot[player] for every seat.
print_pot_and_bets ==
    IF \E p \in Seats : p \notin DOMAIN pots[active_pot] THEN "KeyError" ELSE "none"

\* HoldEmGameManager.continue_game_no_bets: end_betting_round until the
\* showdown, whose exception ends the loop.
RECURSIVE continue_game_no_bets(_, _, _)
continue_game_no_bets(state, d, cc) ==
    LET round == next_round(state)
        dealt == IF round = "SECOND_ROUND" THEN draw(d, 3)
                 ELSE IF round \in {"THIRD_ROUND", "FOURTH_ROUND"} THEN draw(d, 1)
                 ELSE [cards |-> << >>, deck |-> d]
    IN  IF round \in {"SHOWDOWN", None}
        THEN [game_state |-> round, deck |-> d, community_cards |-> cc]
        ELSE continue_game_no_bets(round, dealt.deck, cc \o dealt.cards)

Resumed(t, result) == event' = Ev("resume", t.player, <<t.pc>>, result)

\* player_call and player_raise after the send that announces an all-in:
\* create_side_pot, then continue_without_bets_check, whose refund assigns
\* pot[player] = 0; then has_had_turn and print_pot_and_bets of betting_input.
after_all_in(t) ==
    LET side == create_side_pot(table_money, pots)
        lone == DOMAIN side.pots[side.active_pot]
        run == continue_game_no_bets(game_state, deck, community_cards)
    IN  /\ pots' = side.pots
        /\ active_pot' = side.active_pot
        /\ tasks' = Finish(t)
        /\ IF Cardinality(lone) = 1
           THEN /\ Resumed(t, "TypeError")
                /\ UNCHANGED <<game_state, user, deck, community_cards, has_had_turn>>
           ELSE IF lone = {}
           THEN /\ game_state' = run.game_state
                /\ deck' = run.deck
                /\ community_cards' = run.community_cards
                /\ user' = IF run.game_state = "SHOWDOWN" THEN NoMember ELSE user
                /\ Resumed(t, showdown)
                /\ UNCHANGED has_had_turn
           ELSE /\ has_had_turn' = [has_had_turn EXCEPT ![t.player] = TRUE]
                /\ Resumed(t, "KeyError")
                /\ UNCHANGED <<game_state, user, deck, community_cards>>
        /\ UNCHANGED <<bank, players, table_money, is_active, hand, dealer_index,
                       better_index, last_raise, hung, moved>>

\* betting_input after the send that announces the action: the turn is
\* recorded and the handler is suspended in print_pot_and_bets.
after_action(t) ==
    /\ ~hung
    /\ t.pc = "acted"
    /\ IF t.all_in THEN after_all_in(t)
       ELSE /\ has_had_turn' = [has_had_turn EXCEPT ![t.player] = TRUE]
            /\ tasks' = Finish(t) (+) SetToBag({Task("printed", t.player, FALSE)})
            /\ Resumed(t, "none")
            /\ UNCHANGED <<mgrVars, players, table_money, is_active, hand, pots,
                           active_pot, dealer_index, better_index, last_raise, deck,
                           community_cards, hung, moved>>

\* betting_input after print_pot_and_bets: a complete street goes into
\* end_betting_round, up to its first await; otherwise move_better and
\* ask_player_to_bet.
check_round_end(t) ==
    /\ ~hung
    /\ t.pc = "printed"
    /\ IF betting_complete
       THEN /\ game_state' = next_round(game_state)
            /\ IF game_state' = "SHOWDOWN"
               THEN /\ user' = NoMember
                    /\ tasks' = Finish(t)
                    /\ Resumed(t, showdown)
               ELSE /\ tasks' = Finish(t) (+) SetToBag({Task("dealing", 0, FALSE)})
                    /\ Resumed(t, "none")
                    /\ UNCHANGED user
            /\ UNCHANGED <<bank, tableVars, hung, moved>>
       ELSE IF move_better.hangs
       THEN /\ hung' = TRUE
            /\ Resumed(t, "none")
            /\ UNCHANGED <<mgrVars, tableVars, tasks, moved>>
       ELSE /\ better_index' = move_better.better_index
            /\ IF ask_player_to_bet(move_better.better_index) = "none"
               THEN tasks' = Finish(t) (+) SetToBag({Task("asked", 0, FALSE)})
               ELSE tasks' = Finish(t)
            /\ Resumed(t, ask_player_to_bet(move_better.better_index))
            /\ UNCHANGED <<mgrVars, players, table_money, is_active, has_had_turn, hand,
                           pots, active_pot, dealer_index, last_raise, deck,
                           community_cards, hung, moved>>

\* end_betting_round after "Round complete": the community cards of the round
\* the game is in by now are dealt, and the handler is suspended in
\* print_community_cards.
deal_round(t) ==
    /\ ~hung
    /\ t.pc = "dealing"
    /\ deck' = deal_community_cards(game_state).deck
    /\ community_cards' = community_cards \o deal_community_cards(game_state).cards
    /\ tasks' = Finish(t) (+) SetToBag({Task("dealt", 0, FALSE)})
    /\ Resumed(t, "none")
    /\ UNCHANGED <<mgrVars, players, table_money, is_active, has_had_turn, hand, pots,
                   active_pot, dealer_index, better_index, last_raise, hung, moved>>

\* end_betting_round after print_community_cards: the seat after the dealer
\* bets first and is the one listened to.
open_street(t) ==
    /\ ~hung
    /\ t.pc = "dealt"
    /\ better_index' = (dealer_index + 1) % Len(players)
    /\ user' = players[better_index' + 1]
    /\ tasks' = Finish(t)
    /\ Resumed(t, "none")
    /\ UNCHANGED <<game_state, bank, players, table_money, is_active, has_had_turn, hand,
                   pots, active_pot, dealer_index, last_raise, deck, community_cards,
                   hung, moved>>

\* betting_input after ask_player_to_bet: listen_to_user of the seat that is
\* the bettor by now.
listen_next(t) ==
    /\ ~hung
    /\ t.pc = "asked"
    /\ user' = players[better_index + 1]
    /\ tasks' = Finish(t)
    /\ Resumed(t, "none")
    /\ UNCHANGED <<game_state, bank, tableVars, hung, moved>>

\* ------------------------------------------------------ the specification

Words == {"x"} \cup {Digits[i + 1] : i \in 1..(MaxStack + 1)}

Contents ==
    {<<"join">>, <<"leave">>, <<"start">>, <<"bank">>,
     <<"fold">>, <<"call">>, <<"check">>, <<"raise">>}
    \cup {<<"raise", w>> : w \in Words}

\* HoldEmGameManager.__init__ with HoldEmTable.__init__, Table.__init__ and
\* DirectoryManager.start: nobody seated, no ledger, a shuffled deck.
InitManager ==
    /\ game_state = "PRE_GAME"
    /\ user = NoMember
    /\ bank = [m \in Members |-> initial_deposit]
    /\ players = << >>
    /\ table_money = << >>
    /\ is_active = << >>
    /\ has_had_turn = << >>
    /\ hand = << >>
    /\ pots = << >>
    /\ active_pot = 0
    /\ dealer_index = 0
    /\ better_index = 0
    /\ last_raise = 0
    /\ deck \in Shuffles
    /\ community_cards = << >>
    /\ moved = 0

\* The stacks of the tables checked: full stacks, but for a first seat short
\* of chips or a last seat without any.
StackTables(n) ==
    {[i \in 1..n |-> IF i = 1 THEN s ELSE MaxStack] : s \in 1..MaxStack}
    \cup {[i \in 1..n |-> IF i = n THEN 0 ELSE MaxStack]}

\* The wagers of the tables checked: nothing yet, but for what the last seat
\* has put in.
WagerTables(n) ==
    {[i \in 1..n |-> IF i = n THEN w ELSE 0] : w \in 0..MaxContribution}

\* A table set up for the first street: every seat active with its two hole
\* cards and no turn taken, one pot holding every seat.
InitHand ==
    /\ \E n \in 2..NumMembers :
         \E stacks \in StackTables(n), wagers \in WagerTables(n) :
            /\ TableOf(n, stacks, wagers, [i \in 1..n |-> TRUE])
            /\ \E d \in Shuffles :
                 /\ deck = deal_player_hands(d, [i \in 1..n |-> << >>], 1).deck
                 /\ hand = deal_player_hands(d, [i \in 1..n |-> << >>], 1).hand
    /\ game_state = "FIRST_ROUND"
    /\ user = NoMember
    /\ bank = [m \in Members |-> initial_deposit]
    /\ community_cards = << >>

Init ==
    /\ InitManager \/ InitHand
    /\ tasks = EmptyBag
    /\ event = NoEvent
    /\ hung = FALSE

Next ==
    \/ \E author \in Members, content \in Contents : on_message(author, content)
    \/ \E t \in BagToSet(tasks) : after_action(t)
    \/ \E t \in BagToSet(tasks) : check_round_end(t)
    \/ \E t \in BagToSet(tasks) : deal_round(t)
    \/ \E t \in BagToSet(tasks) : open_street(t)
    \/ \E t \in BagToSet(tasks) : listen_next(t)

Spec == Init /\ [][Next]_vars

\* ------------------------------------------ the showdown, one at a time

\* A PokerHand after determine_strength: its class and the cards that break
\* ties within the class.
EvaluatedHands ==
    [hand_class : 1..MaxHandClass,
     high_cards : [1..MaxHighCards -> {Card(1, r) : r \in 1..MaxHighRank}]]

\* Card.__eq__ and Card.__lt__, the comparisons of the cards HoldEmDeck builds.
Card_eq(a, b) == rank(a) = rank(b)

Card_lt(a, b) == rank(a) < rank(b)

PokerHand_eq(x, y) ==
    /\ x.hand_class = y.hand_class
    /\ Len(x.high_cards) = Len(y.high_cards)
    /\ \A i \in DOMAIN x.high_cards : Card_eq(x.high_cards[i], y.high_cards[i])

\* A comparison that looks at the class and the first high card only.
PokerHand_lt_first(x, y) ==
    IF x.hand_class # y.hand_class THEN x.hand_class < y.hand_class
    ELSE /\ x.high_cards # << >>
         /\ y.high_cards # << >>
         /\ Card_lt(x.high_cards[1], y.high_cards[1])

\* PokerHand.__lt__: the class decides, then the first pair of differing
\* high cards.
PokerHand_lt(x, y) ==
    IF x.hand_class # y.hand_class THEN x.hand_class < y.hand_class
    ELSE LET n == MinOf({Len(x.high_cards), Len(y.high_cards)})
             differ == {i \in 1..n : ~Card_eq(x.high_cards[i], y.high_cards[i])}
         IN  /\ differ # {}
             /\ Card_lt(x.high_cards[MinOf(differ)], y.high_cards[MinOf(differ)])

\* showdown's list of (player, hand) over the non-folded seats, in seat order.
active_player_hands(hands) ==
    LET seats == SelectSeq([i \in 1..Len(players) |-> i], LAMBDA p : is_active[p])
    IN  [i \in DOMAIN seats |-> <<seats[i], hands[seats[i]]>>]

\* player_hands.sort(key=lambda x: x[1], reverse=True): strongest hand first,
\* equal hands in the order they had.
RECURSIVE sort_reverse(_)
sort_reverse(player_hands) ==
    IF player_hands = << >> THEN << >>
    ELSE LET top == {i \in DOMAIN player_hands :
                       \A j \in DOMAIN player_hands :
                          ~PokerHand_lt(player_hands[i][2], player_hands[j][2])}
             first == MinOf(top)
         IN  <<player_hands[first]>>
               \o sort_reverse(SubSeq(player_hands, 1, first - 1)
                                 \o SubSeq(player_hands, first + 1, Len(player_hands)))

\* rank_players_by_hands: the rank of a player counts the hands before and
\* including its own that are below the first hand of the list.
rank_players_by_hands(player_hands) ==
    IF player_hands = << >> THEN [error |-> "IndexError", rankings |-> << >>]
    ELSE [error |-> "none",
          rankings |-> [i \in DOMAIN player_hands |->
                          <<player_hands[i][1],
                            Cardinality({j \in 2..i :
                               PokerHand_lt(player_hands[j][2], player_hands[1][2])})>>]]

\* award_pot: iterating a missing ledger raises TypeError; the first pot is
\* asked for players_in_pot, which Pot does not have, as soon as there is a
\* ranked player to test, and max() of no rank raises ValueError. No stack is
\* credited before the exception.
award_pot(rankings) ==
    [error |-> IF pots = << >> THEN "TypeError"
               ELSE IF rankings = << >> THEN "ValueError"
               ELSE "AttributeError",
     table_money |-> table_money]

\* table.showdown() with the evaluated hands of the non-folded players.
Showdown(hands) ==
    /\ game_state = "SHOWDOWN"
    /\ event.type = "init"
    /\ LET player_hands == sort_reverse(active_player_hands(hands))
           ranked == rank_players_by_hands(player_hands)
           paid == IF ranked.error = "none" THEN award_pot(ranked.rankings)
                   ELSE [error |-> ranked.error, table_money |-> table_money]
       IN  /\ table_money' = paid.table_money
           /\ event' = Ev("showdown", 0,
                          [player_hands |-> player_hands, rankings |-> ranked.rankings],
                          paid.error)
    /\ UNCHANGED <<pots, active_pot, moved>>
    /\ LedgerFrame

InitShowdown ==
    /\ \E n \in 2..NumMembers :
         \E wagers \in [1..n -> 0..MaxWager], active \in [1..n -> BOOLEAN] :
            TableOf(n, [i \in 1..n |-> 0], wagers, active)
    /\ game_state = "SHOWDOWN"
    /\ user = NoMember
    /\ bank = [m \in Members |-> initial_deposit]
    /\ hand = [i \in Seats |-> << >>]
    /\ deck = << >>
    /\ community_cards = << >>
    /\ tasks = EmptyBag
    /\ event = NoEvent
    /\ hung = FALSE

NextShowdown ==
    \E hands \in [{p \in Seats : is_active[p]} -> EvaluatedHands] : Showdown(hands)

SpecShowdown == InitShowdown /\ [][NextShowdown]_vars

\* -------------------------------------------- cards.py: evaluating a hand

\* PokerHandClass, by value.
PokerHandClass ==
    [HIGH_CARD |-> 1, PAIR |-> 2, TWO_PAIR |-> 3, THREE_OF_A_KIND |-> 4, STRAIGHT |-> 5,
     FLUSH |-> 6, FULL_HOUSE |-> 7, FOUR_OF_A_KIND |-> 8, STRAIGHT_FLUSH |-> 9]

\* Hand.count_ranks and Hand.count_suits: a Counter over the cards of the hand.
count_ranks(h) ==
    [r \in {rank(h[i]) : i \in DOMAIN h} |-> Cardinality({i \in DOMAIN h : rank(h[i]) = r})]

count_suits(h) ==
    [s \in {suit(h[i]) : i \in DOMAIN h} |-> Cardinality({i \in DOMAIN h : suit(h[i]) = s})]

\* Counter.most_common(1)[0][0]: the key counted most often, the one met
\* first in the hand among equals; keys lists the key of each card of the hand.
most_common(keys, counts) ==
    LET most == MaxOf({counts[k] : k \in DOMAIN counts})
        first == MinOf({i \in DOMAIN keys : counts[keys[i]] = most})
    IN  keys[first]

\* The cards of h at the positions S, in the order of the hand.
Pick(h, S) ==
    [k \in 1..Cardinality(S) |->
        h[CHOOSE i \in S : Cardinality({j \in S : j < i}) = k - 1]]

\* itertools.combinations(hand, 5)
combinations(h) == {Pick(h, S) : S \in {T \in SUBSET DOMAIN h : Cardinality(T) = 5}}

_is_straight_five(h) ==
    LET ranks == {rank(h[i]) : i \in DOMAIN h}
        normalized == {r - MinOf(ranks) : r \in ranks}
    IN  /\ Cardinality(ranks) = 5
        /\ normalized = {0, 1, 2, 3, 4} \/ normalized = {0, 9, 10, 11, 12}

_is_straight(h) == \E five \in combinations(h) : _is_straight_five(five)

_is_flush(h) ==
    LET counts == count_suits(h) IN \E s \in DOMAIN counts : counts[s] >= 5

_is_straight_flush_five(h) == _is_straight(h) /\ _is_flush(h)

\* The straight and the flush looked for in the whole hand, not in one
\* five-card subset.
_is_straight_flush_whole(h) == _is_straight(h) /\ _is_flush(h)

_is_straight_flush(h) == \E five \in combinations(h) : _is_straight_flush_five(five)

_is_four_of_a_kind(h) ==
    LET counts == count_ranks(h) IN \E r \in DOMAIN counts : counts[r] >= 4

_is_full_house(h) ==
    LET counts == count_ranks(h)
    IN  \/ /\ \E r \in DOMAIN counts : counts[r] = 3
           /\ \E r \in DOMAIN counts : counts[r] = 2
        \/ Cardinality({r \in DOMAIN counts : counts[r] = 3}) = 2

_is_three_of_a_kind(h) ==
    LET counts == count_ranks(h) IN \E r \in DOMAIN counts : counts[r] >= 3

_is_two_pair(h) ==
    LET counts == count_ranks(h)
    IN  Cardinality({r \in DOMAIN counts : counts[r] = 2}) >= 2

_is_pair(h) ==
    LET counts == count_ranks(h) IN \E r \in DOMAIN counts : counts[r] >= 2

_classify(h) ==
    IF _is_straight_flush(h) THEN PokerHandClass.STRAIGHT_FLUSH
    ELSE IF _is_four_of_a_kind(h) THEN PokerHandClass.FOUR_OF_A_KIND
    ELSE IF _is_full_house(h) THEN PokerHandClass.FULL_HOUSE
    ELSE IF _is_flush(h) THEN PokerHandClass.FLUSH
    ELSE IF _is_straight(h) THEN PokerHandClass.STRAIGHT
    ELSE IF _is_three_of_a_kind(h) THEN PokerHandClass.THREE_OF_A_KIND
    ELSE IF _is_two_pair(h) THEN PokerHandClass.TWO_PAIR
    ELSE IF _is_pair(h) THEN PokerHandClass.PAIR
    ELSE PokerHandClass.HIGH_CARD

\* PokerHandClassifier.classify: no class for fewer than five cards (0 stands
\* for Python's None here).
classify(h) == IF Len(h) < 5 THEN 0 ELSE _classify(h)

\* list.sort() on cards: ascending by Card.__lt__, equal ranks in the order
\* they had.
RECURSIVE sort(_)
sort(cards) ==
    IF cards = << >> THEN << >>
    ELSE LET low == {i \in DOMAIN cards :
                       \A j \in DOMAIN cards : ~Card_lt(cards[j], cards[i])}
             first == MinOf(low)
         IN  <<cards[first]>>
               \o sort(SubSeq(cards, 1, first - 1) \o SubSeq(cards, first + 1, Len(cards)))

\* cards[-n:]
Last(cards, n) == SubSeq(cards, MaxOf({1, Len(cards) - n + 1}), Len(cards))

\* The first card of the hand with a rank.
first_of_rank(h, r) == h[MinOf({i \in DOMAIN h : rank(h[i]) = r})]

\* PokerHand.determine_hand_rank for a hand of class c: the exception it
\* ends with and the high cards it has appended by then.
determine_hand_rank(h, c) ==
    LET counts == count_ranks(h)
        done(cards) == [error |-> "none", high_cards |-> cards]
        kickers(cards, n) ==
            IF Len(cards) < n THEN << >>
            ELSE [k \in 1..n |-> sort(cards)[Len(cards) - k + 1]]
        without(ranks) == SelectSeq(h, LAMBDA card : rank(card) \notin ranks)
        with_kickers(first, ranks, n) ==
            IF Len(without(ranks)) < n
            THEN [error |-> "IndexError",
                  high_cards |-> first \o kickers(without(ranks), Len(without(ranks)))]
            ELSE done(first \o kickers(without(ranks), n))
    IN  CASE c \in {PokerHandClass.STRAIGHT_FLUSH, PokerHandClass.STRAIGHT} ->
               \* self._is_straight_five is a method of the classifier, not
               \* of the hand
               [error |-> "AttributeError", high_cards |-> << >>]
          [] c = PokerHandClass.FOUR_OF_A_KIND ->
               LET four == most_common([i \in DOMAIN h |-> rank(h[i])], counts)
                   others == without({four})
                   best == MinOf({i \in DOMAIN others :
                                    \A j \in DOMAIN others : ~Card_lt(others[i], others[j])})
               IN  IF others = << >>
                   THEN [error |-> "ValueError", high_cards |-> <<first_of_rank(h, four)>>]
                   ELSE done(<<first_of_rank(h, four), others[best]>>)
          [] c = PokerHandClass.FULL_HOUSE ->
               LET triples == {r \in DOMAIN counts : counts[r] = 3}
                   first_rank == MaxOf(triples)
                   doubles == {r \in DOMAIN counts : counts[r] >= 2 /\ r # first_rank}
               IN  IF triples = {} THEN [error |-> "ValueError", high_cards |-> << >>]
                   ELSE IF doubles = {}
                   THEN [error |-> "ValueError", high_cards |-> <<first_of_rank(h, first_rank)>>]
                   ELSE done(<<first_of_rank(h, first_rank), first_of_rank(h, MaxOf(doubles))>>)
          [] c = PokerHandClass.FLUSH ->
               LET flush_suit == most_common([i \in DOMAIN h |-> suit(h[i])], count_suits(h))
               IN  done(Last(sort(SelectSeq(h, LAMBDA card : suit(card) = flush_suit)), 5))
          [] c = PokerHandClass.THREE_OF_A_KIND ->
               LET three == most_common([i \in DOMAIN h |-> rank(h[i])], counts)
               IN  with_kickers(<<first_of_rank(h, three)>>, {three}, 2)
          [] c = PokerHandClass.TWO_PAIR ->
               LET doubles == {r \in DOMAIN counts : counts[r] >= 2}
                   first_rank == MaxOf(doubles)
                   second_rank == MaxOf(doubles \ {first_rank})
               IN  IF Cardinality(doubles) < 2
                   THEN [error |-> "IndexError",
                         high_cards |-> IF doubles = {} THEN << >>
                                        ELSE <<first_of_rank(h, first_rank)>>]
                   ELSE with_kickers(<<first_of_rank(h, first_rank),
                                       first_of_rank(h, second_rank)>>,
                                     {first_rank, second_rank}, 1)
          [] c = PokerHandClass.PAIR ->
               LET pair == most_common([i \in DOMAIN h |-> rank(h[i])], counts)
               IN  with_kickers(<<first_of_rank(h, pair)>>, {pair}, 3)
          [] OTHER -> done(Last(sort(h), 5))

\* PokerHand.determine_strength(classifier)
determine_strength(h) ==
    LET hand_class == classify(h)
        ranked == determine_hand_rank(h, hand_class)
    IN  [hand_class |-> hand_class, high_cards |-> ranked.high_cards, error |-> ranked.error]

\* ------------------------------------------ evaluating a hand, on its own

\* The cards the evaluated hands are made of: the hearts of the wheel and of
\* the ace-high straight, and the aces, kings, twos and fives of other suits
\* that pair them.
EvalCards ==
    {Card(1, r) : r \in {1, 2, 3, 4, 5, 10, 11, 12, 13}}
      \cup {Card(2, r) : r \in {1, 2, 5, 13}}
      \cup {Card(3, r) : r \in {1, 13}}
      \cup {Card(4, 1)}

\* showdown's self.community_cards + active_player.hand
combined(p) == community_cards \o hand[p]

\* hand.determine_strength(self.classifier) for the only player of the table.
DetermineStrength ==
    /\ game_state = "SHOWDOWN"
    /\ event.type = "init"
    /\ LET evaluated == determine_strength(combined(1))
       IN  event' = Ev("determine_strength", 1,
                       [hand_class |-> evaluated.hand_class,
                        high_cards |-> evaluated.high_cards],
                       evaluated.error)
    /\ UNCHANGED <<table_money, pots, active_pot, moved>>
    /\ LedgerFrame

\* One player at showdown; its two hole cards and the community cards are
\* MinHandCards to MaxHandCards cards of EvalCards, lowest card number first.
InitHands ==
    /\ TableOf(1, <<0>>, <<0>>, <<TRUE>>)
    /\ \E S \in SUBSET EvalCards :
         /\ Cardinality(S) \in MinHandCards..MaxHandCards
         /\ LET cards == [k \in 1..Cardinality(S) |->
                            CHOOSE c \in S : Cardinality({d \in S : d < c}) = k - 1]
            IN  /\ community_cards = SubSeq(cards, 1, Len(cards) - 2)
                /\ hand = <<SubSeq(cards, Len(cards) - 1, Len(cards))>>
    /\ game_state = "SHOWDOWN"
    /\ user = NoMember
    /\ bank = [m \in Members |-> initial_deposit]
    /\ deck = << >>
    /\ tasks = EmptyBag
    /\ event = NoEvent
    /\ hung = FALSE

NextHands == DetermineStrength

SpecHands == InitHands /\ [][NextHands]_vars

\* ---------------------------------------------------------------- claims

\* C1: within a hand the totals of all pots sum to the chips debited from the
\* stacks since the hand started; no operation of the ledger creates or
\* destroys chips.
C1_ChipsConserved == PotsTotal = moved

\* What the pots with p as their only non-folded participant hold.
SoleClaim(p) ==
    SumOver([k \in DOMAIN pots |->
                IF {q \in DOMAIN pots[k] : is_active[q]} = {p} THEN total(pots[k]) ELSE 0],
            DOMAIN pots)

\* C2: at showdown every pot is paid, and only to non-folded participants of
\* that pot holding the strongest hand among them.  Stated for what follows
\* whatever the hands are: no stack shrinks, a stack grows only for a
\* non-folded participant of a pot that holds chips, and the only non-folded
\* participant of a pot is paid its total.
C2_ShowdownPaysEligible ==
    [][(game_state' = "SHOWDOWN" /\ game_state # "SHOWDOWN") =>
         /\ \A p \in Seats : table_money'[p] >= table_money[p]
         /\ \A p \in Seats :
              table_money'[p] > table_money[p] =>
                /\ is_active[p]
                /\ \E k \in DOMAIN pots : p \in DOMAIN pots[k] /\ total(pots[k]) > 0
         /\ \A p \in Seats : table_money'[p] - table_money[p] >= SoleClaim(p)]_vars

Rejections == {"InvalidBet", "InsufficientFunds", "InvalidUserResponse"}

\* C3: a betting command rejected with InvalidBet, InsufficientFunds or
\* InvalidUserResponse leaves every stack, every contribution, the pots and
\* the active pot, last_raise, the active and turn-taken flags, the bettor
\* seat and the round as they were.
C3_RejectedChangesNothing ==
    [][(game_state \in BettingRounds /\ event'.type = "message"
          /\ event'.result \in Rejections)
         => UNCHANGED <<table_money, pots, active_pot, last_raise, is_active,
                        has_had_turn, better_index, game_state>>]_vars

\* A raise for more than the stack was rejected in the middle of a hand.
C3_Witness ==
    /\ game_state \in BettingRounds
    /\ event.type = "message"
    /\ event.result = "InsufficientFunds"
    /\ event.content[1] = "raise"
    /\ \E p \in Seats : has_had_turn[p]

\* The cycle of rounds.
Successor(state) ==
    CASE state = "PRE_GAME" -> "GAME_START"
      [] state = "GAME_START" -> "FIRST_ROUND"
      [] state = "FIRST_ROUND" -> "SECOND_ROUND"
      [] state = "SECOND_ROUND" -> "THIRD_ROUND"
      [] state = "THIRD_ROUND" -> "FOURTH_ROUND"
      [] state = "FOURTH_ROUND" -> "SHOWDOWN"
      [] state = "SHOWDOWN" -> "GAME_END"
      [] state = "GAME_END" -> "PRE_GAME"
      [] OTHER -> None

\* C4: the round is always one of the eight enumerated values and only ever
\* changes to its immediate successor in the cycle.
C4_RoundsInOrder ==
    [][/\ game_state' \in HoldEmGameState
       /\ game_state' # game_state => game_state' = Successor(game_state)]_vars

\* C5: commands are processed one at a time: while the handler of an accepted
\* command is suspended at an await, no other message is accepted or changes
\* state.
C5_OneCommandAtATime ==
    [][(tasks # EmptyBag /\ event'.type = "message")
         => UNCHANGED <<tableVars, mgrVars, tasks, hung, moved>>]_vars

\* C6: during a betting street a message from anyone but the player at the
\* current bettor seat changes no state and queues nothing.
C6_OthersChangeNothing ==
    [][(game_state \in BettingRounds /\ event'.type = "message"
          /\ event'.author # players[better_index + 1])
         => UNCHANGED <<tableVars, mgrVars, tasks, hung, moved>>]_vars

\* A seated player who is not the bettor, and whom the listener lets through,
\* has sent a message in the middle of a hand.
C6_Witness ==
    /\ game_state \in BettingRounds
    /\ event.type = "message"
    /\ event.author # players[better_index + 1]
    /\ \E p \in Seats : players[p] = event.author
    /\ process_message(event.author)
    /\ \E p \in Seats : has_had_turn[p]

\* C7: betting_complete() is true exactly when every player is folded, has no
\* stack or has matched the largest contribution, and every non-folded player
\* with a stack has acted.  Stated of the table between commands, when no
\* handler is suspended.
C7_BettingCompleteExactly ==
    (game_state \in BettingRounds /\ tasks = EmptyBag) =>
        (betting_complete <=>
            /\ \A p \in Seats :
                 \/ ~is_active[p]
                 \/ table_money[p] = 0
                 \/ pots[active_pot][p] = largest_contribution(pots[active_pot])
            /\ \A p \in Seats : (is_active[p] /\ table_money[p] > 0) => has_had_turn[p])

\* C8: when a betting street has been opened (its cards dealt and its first
\* bettor set), every player's turn-taken flag is false.
C8_FlagsResetEachStreet ==
    [][(game_state' \in BettingRounds
          /\ \E t \in BagToSet(tasks) : t.pc = "dealt" /\ tasks' = Finish(t))
         => \A p \in Seats : ~has_had_turn'[p]]_vars

\* The command of the current bettor, who holds chips, commits the whole
\* stack: a call the stack does not exceed, or a raise that exhausts it.
AllInCommand(author, content) ==
    /\ author = players[better_index + 1]
    /\ content # << >>
    /\ content[1] \in {"call", "raise"}
    /\ table_money[better_index + 1] > 0
    /\ command(better_index + 1, content).all_in

AllInSeats(pot) == {a \in DOMAIN pot : is_active[a] /\ table_money[a] = 0 /\ pot[a] > 0}

\* C10: right after a side pot is created for an all-in player, nobody carried
\* into the new pot has more in the previous pot than the all-in player has
\* there, and the ledger total is what it was.
C10_ExcessMovedToSidePot ==
    [][(Len(pots') = Len(pots) + 1 /\ AllInSeats(pots[active_pot]) # {}) =>
         /\ \A a \in AllInSeats(pots[active_pot]) :
              \A p \in DOMAIN pots'[active_pot'] \cap DOMAIN pots[active_pot] :
                 pots'[active_pot][p] <= pots'[active_pot][a]
         /\ SumOver([k \in DOMAIN pots' |-> total(pots'[k])], DOMAIN pots') = PotsTotal]_vars

\* The message handled in this step is a betting command of the current
\* bettor with this first word.
BettorSays(word) ==
    /\ game_state \in BettingRounds
    /\ event'.type = "message"
    /\ event'.author = players[better_index + 1]
    /\ event'.content # << >>
    /\ event'.content[1] = word

\* The raise rule: within the stack, and either no less than the last raise
\* and the minimum bet or exactly all-in.
RaiseLegal(p, amount) ==
    /\ amount + to_call(p) <= table_money[p]
    /\ \/ amount >= last_raise /\ amount >= min_bet
       \/ amount + to_call(p) = table_money[p]

\* C11: a raise by the current bettor is accepted iff it is within the stack
\* and either reaches last_raise and the minimum bet or is exactly all-in; it
\* is rejected with InsufficientFunds when it exceeds the stack and with
\* InvalidBet when it is below the minimum without being all-in.
C11_RaiseAcceptedIff ==
    [][(BettorSays("raise") /\ Len(event'.content) = 2 /\ IsInt(event'.content[2])) =>
         LET p == better_index + 1
             amount == int(event'.content[2])
         IN  /\ event'.result = "none" <=> RaiseLegal(p, amount)
             /\ (~RaiseLegal(p, amount) /\ amount + to_call(p) <= table_money[p]) =>
                  event'.result = "InvalidBet"
             /\ (amount + to_call(p) > table_money[p]
                   /\ amount >= last_raise /\ amount >= min_bet) =>
                  event'.result = "InsufficientFunds"
             /\ ~RaiseLegal(p, amount) =>
                  event'.result \in {"InvalidBet", "InsufficientFunds"}]_vars

\* C12: a call by the current bettor never fails: it moves
\* min(largest contribution - own contribution, stack) chips from the stack
\* into the active pot.
C12_CallNeverFails ==
    [][(BettorSays("call") /\ Len(event'.content) = 1) =>
         LET p == better_index + 1
             amount == MinOf({to_call(p), table_money[p]})
         IN  /\ event'.result = "none"
             /\ table_money' = [table_money EXCEPT ![p] = @ - amount]
             /\ pots' = [pots EXCEPT ![active_pot][p] = @ + amount]]_vars

\* C13: a check by the current bettor is accepted iff the player's
\* contribution equals the largest of the active pot, and is rejected with
\* InvalidBet otherwise; an accepted check changes no stack and no
\* contribution.
C13_CheckAcceptedIff ==
    [][BettorSays("check") =>
         LET p == better_index + 1
         IN  /\ event'.result = "none" <=> to_call(p) = 0
             /\ to_call(p) # 0 => event'.result = "InvalidBet"
             /\ UNCHANGED <<table_money, pots>>]_vars

\* A check of a bettor who owes chips has been rejected in the middle of a hand.
C13_Witness ==
    /\ game_state \in BettingRounds
    /\ event.type = "message"
    /\ event.content = <<"check">>
    /\ event.result = "InvalidBet"
    /\ to_call(better_index + 1) > 0
    /\ \E p \in Seats : has_had_turn[p]

\* The first non-folded seat reached by advancing circularly from a seat,
\* 0 when every seat has folded.
NextAfter(seat) ==
    LET n == Len(players)
        steps == {k \in 1..n : is_active[((seat - 1 + k) % n) + 1]}
    IN  IF steps = {} THEN 0 ELSE ((seat - 1 + MinOf(steps)) % n) + 1

\* C14: when a handler comes back from printing the pot after an accepted
\* action and the street is not complete, the selection of the next bettor
\* terminates and the current bettor becomes the first non-folded seat reached
\* by advancing circularly from the seat that just acted.
C14_NextBettorAfterActor ==
    [][(event'.type = "resume" /\ event'.content = <<"printed">> /\ ~betting_complete)
         => /\ ~hung'
            /\ better_index' + 1 = NextAfter(event'.author)
            /\ is_active[better_index' + 1]]_vars

\* The participants of the active pot that have not folded.
Remaining == {p \in DOMAIN pots[active_pot] : is_active[p]}

\* C15: once at most one contributor remains in the active pot and the
\* handlers have finished, the hand is run out without betting: no further
\* betting command is accepted in it.
C15_LoneContributorEndsBetting ==
    [][(/\ game_state \in BettingRounds
        /\ tasks = EmptyBag
        /\ Cardinality(Remaining) <= 1
        /\ event'.type = "message")
         => event'.result # "none"]_vars

\* A hand is started: the start command reaches game_start with enough
\* players seated.
HandStarts ==
    /\ game_state = "PRE_GAME"
    /\ event'.type = "message"
    /\ event'.content = <<"start">>
    /\ Len(players) >= min_players
    /\ event'.result # "ignored"

\* C16: posting the blinds never fails: the seat after the dealer posts
\* min(small blind, stack), the seat after it min(big blind, stack), each
\* amount debited from the stack and contributed to the main pot.
C16_BlindsPostedCapped ==
    [][HandStarts =>
         LET n == Len(players)
             sb == ((dealer_index + 1) % n) + 1
             bb == ((dealer_index + 2) % n) + 1
             small == MinOf({min_bet \div 2, table_money[sb]})
             after_small == [table_money EXCEPT ![sb] = @ - small]
             big == MinOf({min_bet, after_small[bb]})
         IN  /\ event'.result = "none"
             /\ game_state' = "FIRST_ROUND"
             /\ table_money' = [after_small EXCEPT ![bb] = @ - big]
             /\ pots' # << >>
             /\ \A p \in Seats :
                  pots'[1][p] = (IF p = sb THEN small ELSE 0) + (IF p = bb THEN big ELSE 0)]_vars

\* C19: when a hand starts the ledger is initialized anew: it is exactly one
\* pot, the active one, with every seated player as participant, and it holds
\* nothing but what the start of this hand debited from the stacks.
C19_LedgerInitializedAtStart ==
    [][HandStarts =>
         /\ Len(pots') = 1
         /\ active_pot' = 1
         /\ DOMAIN pots'[1] = Seats
         /\ total(pots'[1]) = SumSeq(table_money) - SumSeq(table_money')]_vars

\* The community cards on the table in each round of a hand.
CommunityCount(state) ==
    CASE state = "FIRST_ROUND" -> 0
      [] state = "SECOND_ROUND" -> 3
      [] state = "THIRD_ROUND" -> 4
      [] state \in {"FOURTH_ROUND", "SHOWDOWN"} -> 5

\* C20: whenever the table waits for a command in a betting round, and at
\* showdown, the community cards number 0, 3, 4 and 5 in the first to fourth
\* round and 5 at showdown.
C20_CommunityCardsPerRound ==
    (tasks = EmptyBag /\ game_state \in BettingRounds \cup {"SHOWDOWN"})
        => Len(community_cards) = CommunityCount(game_state)

\* The hand a player showed down.
ShownHand(p) ==
    LET i == CHOOSE k \in DOMAIN event.content.player_hands :
                 event.content.player_hands[k][1] = p
    IN  event.content.player_hands[i][2]

\* C18: in the ranking of a showdown two players have the same rank exactly
\* when their hands are tied, and a player with a stronger hand has a strictly
\* better (smaller) rank than a player with a weaker hand.
C18_RankingMatchesStrength ==
    event.type = "showdown" =>
        \A a, b \in DOMAIN event.content.rankings :
            LET ra == event.content.rankings[a]
                rb == event.content.rankings[b]
            IN  /\ ra[2] = rb[2] <=> PokerHand_eq(ShownHand(ra[1]), ShownHand(rb[1]))
                /\ PokerHand_lt(ShownHand(rb[1]), ShownHand(ra[1])) => ra[2] < rb[2]

\* The players eligible for a pot at showdown, the strongest hands among
\* them, and what a player receives when every pot is split among its
\* strongest hands.
Eligible(k) == {p \in DOMAIN pots[k] : is_active[p]}

Strongest(k) ==
    {p \in Eligible(k) : \A q \in Eligible(k) : ~PokerHand_lt(ShownHand(p), ShownHand(q))}

Share(p) ==
    SumOver([k \in DOMAIN pots |->
                IF p \in Strongest(k)
                THEN total(pots[k]) \div Cardinality(Strongest(k)) ELSE 0],
            DOMAIN pots)

\* C17: when two or more eligible players tie for the strongest hand of each
\* pot, the showdown credits each of them the pot's total divided by their
\* number, rounded down, and credits nobody else.
C17_TiedPlayersSplitPot ==
    [][(event'.type = "showdown" /\ \A k \in DOMAIN pots : Cardinality(Strongest(k)') >= 2)
         => \A p \in Seats : table_money'[p] = table_money[p] + Share(p)']_vars

\* A member has a seat at the table.
Seated(m) == \E i \in DOMAIN players : players[i] = m

\* C21: no command seats a player twice or more than max_players players; a
\* join by a seated player is rejected with AlreadyJoined and a join at a full
\* table with TableFull, neither seating anyone nor taking a buy-in.
C21_SeatingPreconditions ==
    [][event'.type = "message" =>
         /\ Len(players') <= max_players
         /\ \A i, j \in DOMAIN players' : players'[i] = players'[j] => i = j
         /\ (/\ game_state = "PRE_GAME"
             /\ event'.content = <<"join">>
             /\ Seated(event'.author) \/ Len(players) >= max_players)
              => /\ event'.result \in {"AlreadyJoined", "TableFull"}
                 /\ ~Seated(event'.author) => event'.result = "TableFull"
                 /\ Len(players) < max_players => event'.result = "AlreadyJoined"
                 /\ UNCHANGED <<players, bank, table_money>>]_vars

\* C22: every contribution recorded in every pot and every stack is at least
\* 0, whatever ledger operations have been called.
C22_NothingNegative ==
    /\ \A k \in DOMAIN pots : \A p \in DOMAIN pots[k] : pots[k][p] >= 0
    /\ \A p \in Seats : table_money[p] >= 0

\* increase_bet has debited a stack down to its last chip.
C22_Witness ==
    /\ event.type = "call"
    /\ event.content = <<"increase_bet">>
    /\ moved > PotsTotal
    /\ \E p \in Seats : table_money[p] = 1
    /\ C22_NothingNegative

\* The value of a rank with the Ace above the King.
AceHigh(r) == IF r = 1 THEN 14 ELSE r

\* The rank of S that is highest with the Ace high.
BestRank(S) == CHOOSE r \in S : \A q \in S : AceHigh(q) <= AceHigh(r)

\* A hand has been evaluated.
Evaluated == event.type = "determine_strength"

\* C23: a hand with exactly three cards of one rank and two or three of
\* another is a full house whose high cards are a card of the triple rank,
\* the higher one with the Ace high when there are two, and a card of the
\* best other rank held at least twice.
C23_FullHouseHighCards ==
    LET counts == count_ranks(combined(1))
        triples == {r \in DOMAIN counts : counts[r] = 3}
        set == BestRank(triples)
        pairs == {r \in DOMAIN counts : counts[r] >= 2 /\ r # set}
    IN  (/\ Evaluated
         /\ triples # {}
         /\ \E r \in DOMAIN counts : counts[r] >= 2 /\ r # set
         /\ \A r \in DOMAIN counts : counts[r] <= 3)
          => /\ event.content.hand_class = PokerHandClass.FULL_HOUSE
             /\ event.result = "none"
             /\ Len(event.content.high_cards) = 2
             /\ rank(event.content.high_cards[1]) = set
             /\ rank(event.content.high_cards[2]) = BestRank(pairs)

\* The high ends, Ace as 14, of the five-rank sequences a set of ranks
\* contains: A-2-3-4-5 up to 9-10-J-Q-K, and 10-J-Q-K-A.
RunHighs(ranks) ==
    {m + 4 : m \in {n \in 1..9 : n..(n + 4) \subseteq ranks}}
      \cup (IF {10, 11, 12, 13, 1} \subseteq ranks THEN {14} ELSE {})

\* The ranks of the cards of a hand, and of its cards of one suit.
RanksOf(h) == {rank(h[i]) : i \in DOMAIN h}

SuitedRanks(h, s) == {rank(h[i]) : i \in {j \in DOMAIN h : suit(h[j]) = s}}

\* C24: for a hand classified straight or straight flush the tie-break ends
\* without error with exactly one high card, the high end of the best
\* five-card sequence of the hand (of one suit for a straight flush).
C24_StraightHighCard ==
    LET h == combined(1)
        highs == IF event.content.hand_class = PokerHandClass.STRAIGHT
                 THEN RunHighs(RanksOf(h))
                 ELSE UNION {RunHighs(SuitedRanks(h, s)) : s \in 1..4}
    IN  (/\ Evaluated
         /\ event.content.hand_class \in
              {PokerHandClass.STRAIGHT, PokerHandClass.STRAIGHT_FLUSH})
          => /\ event.result = "none"
             /\ Len(event.content.high_cards) = 1
             /\ AceHigh(rank(event.content.high_cards[1])) = MaxOf(highs)

\* C26: a hand passes the straight check exactly when its ranks contain one
\* of the sequences A-2-3-4-5 to 9-10-J-Q-K or 10-J-Q-K-A, so a set of ranks
\* that wraps around the Ace never counts; it is a straight flush exactly when
\* the cards of one suit contain such a sequence.
C26_StraightCheck ==
    LET h == combined(1)
        suited == \E s \in 1..4 : RunHighs(SuitedRanks(h, s)) # {}
    IN  Evaluated =>
          /\ _is_straight(h) <=> RunHighs(RanksOf(h)) # {}
          /\ _is_straight_flush(h) <=> suited
          /\ event.content.hand_class = PokerHandClass.STRAIGHT_FLUSH <=> suited

\* A hand with five cards of one suit and a straight across two suits has
\* been classified as a flush.
C26_Witness ==
    /\ Evaluated
    /\ _is_flush(combined(1))
    /\ _is_straight(combined(1))
    /\ event.content.hand_class = PokerHandClass.FLUSH

\* The evaluated hands shown at a showdown.
Shown == {event.content.player_hands[i][2] : i \in DOMAIN event.content.player_hands}

\* The ranks of the high cards of an evaluated hand.
HighRanks(x) == [i \in DOMAIN x.high_cards |-> rank(x.high_cards[i])]

\* C27: on the hands of a showdown the comparison is a strict total order up
\* to ties: X > Y and Y > Z imply X > Z, exactly one of X < Y, Y < X and
\* X == Y holds, and X == Y exactly when the classes and the ranks of the high
\* cards are the same.
C27_ComparisonTotalOrder ==
    event.type = "showdown" =>
        \A X, Y, Z \in Shown :
            /\ (PokerHand_lt(Y, X) /\ PokerHand_lt(Z, Y)) => PokerHand_lt(Z, X)
            /\ \/ PokerHand_lt(X, Y) /\ ~PokerHand_lt(Y, X) /\ ~PokerHand_eq(X, Y)
               \/ ~PokerHand_lt(X, Y) /\ PokerHand_lt(Y, X) /\ ~PokerHand_eq(X, Y)
               \/ ~PokerHand_lt(X, Y) /\ ~PokerHand_lt(Y, X) /\ PokerHand_eq(X, Y)
            /\ PokerHand_eq(X, Y) <=>
                 (X.hand_class = Y.hand_class /\ HighRanks(X) = HighRanks(Y))

\* Three players have shown three hands of one class, each below the one
\* before, two of them differing in their second high card only.
C27_Witness ==
    /\ event.type = "showdown"
    /\ Len(event.content.player_hands) = 3
    /\ LET X == event.content.player_hands[1][2]
           Y == event.content.player_hands[2][2]
           Z == event.content.player_hands[3][2]
       IN  /\ PokerHand_lt(Y, X)
           /\ PokerHand_lt(Z, Y)
           /\ X.hand_class = Z.hand_class
           /\ HighRanks(X)[1] = HighRanks(Y)[1]

\* Below, with the Ace above the King: the first differing high card decides.
AceHighBelow(x, y) ==
    LET differ == {i \in DOMAIN x.high_cards \cap DOMAIN y.high_cards :
                     HighRanks(x)[i] # HighRanks(y)[i]}
    IN  /\ differ # {}
        /\ AceHigh(HighRanks(x)[MinOf(differ)]) < AceHigh(HighRanks(y)[MinOf(differ)])

\* C25: two hands of one class shown at a showdown compare by their high
\* cards with the Ace as the highest rank.
C25_AceHighInComparison ==
    event.type = "showdown" =>
        \A X, Y \in Shown :
            X.hand_class = Y.hand_class => (PokerHand_lt(X, Y) <=> AceHighBelow(X, Y))

\* C28: when a hand leaves its last betting round the pots are paid: the
\* stacks then sum to what they were before any chip of the hand was wagered,
\* less at most the remainders of split pots, which for each pot are fewer
\* than its non-folded participants.
C28_HandSettlesChips ==
    [][(game_state \in BettingRounds /\ game_state' \notin BettingRounds) =>
         LET before == SumSeq(table_money) + moved
             lost == before - SumSeq(table_money')
             remainders ==
                 SumOver([k \in DOMAIN pots |->
                            MaxOf({0, Cardinality({p \in DOMAIN pots[k] : is_active[p]}) - 1})],
                         DOMAIN pots)
         IN  lost >= 0 /\ lost <= remainders]_vars

\* What a player has contributed, summed over all pots.
TotalContribution(p) ==
    SumOver([k \in DOMAIN pots |-> IF p \in DOMAIN pots[k] THEN pots[k][p] ELSE 0],
            DOMAIN pots)

\* A non-folded player with chips has contributed less than a non-folded
\* player who is all-in.
Owes(p) ==
    /\ is_active[p]
    /\ table_money[p] > 0
    /\ \E a \in Seats :
         /\ is_active[a]
         /\ table_money[a] = 0
         /\ TotalContribution(p) < TotalContribution(a)

\* C29: once a side pot is open, a player who still owes chips towards an
\* all-in player's contribution cannot check.
C29_SidePotKeepsDebt ==
    Len(pots) > 1 =>
        \A p \in DOMAIN pots[active_pot] : Owes(p) => player_check(p).error # "none"

\* C30: at showdown every pot of the ledger has a participant that has not
\* folded.
C30_EveryPotHasAClaimant ==
    game_state = "SHOWDOWN" =>
        \A k \in DOMAIN pots : \E p \in DOMAIN pots[k] : is_active[p]

\* The table waits for a command in a betting street: no handler is suspended
\* and the event loop is free.
WaitingForCommand ==
    /\ game_state \in BettingRounds
    /\ tasks = EmptyBag
    /\ ~hung

\* C31: whenever the game is in a betting street and waits for a command, the
\* player at the current bettor seat has not folded and has chips left, after
\* a bettor advance as well as at the opening of a street.
C31_BettorCanAct ==
    WaitingForCommand =>
        /\ is_active[better_index + 1]
        /\ table_money[better_index + 1] > 0

\* C32: a hand that is started opens FIRST_ROUND with the blinds posted and
\* the current bettor at the seat after the big blind, (dealer + 3) mod the
\* number of seats.
C32_FirstBettorAfterBigBlind ==
    [][HandStarts =>
         /\ game_state' = "FIRST_ROUND"
         /\ better_index' = (dealer_index + 3) % Len(players)]_vars

\* A hand has been played to its end: the game is in no betting street, the
\* seated players hold the cards of the hand and no handler is running.
HandOver ==
    /\ game_state \in {"SHOWDOWN", "GAME_END", "PRE_GAME"}
    /\ tasks = EmptyBag
    /\ ~hung
    /\ Seats # {}
    /\ \A p \in Seats : hand[p] # << >>

\* A hand that has just been dealt with nothing left of an earlier one: every
\* seat active with no turn taken and two hole cards, taken off the deck.
FreshHand ==
    /\ game_state = "FIRST_ROUND"
    /\ \A p \in Seats :
         /\ is_active[p]
         /\ ~has_had_turn[p]
         /\ Len(hand[p]) = 2
         /\ \A i \in DOMAIN hand[p], j \in DOMAIN deck : hand[p][i] # deck[j]

\* C33: when a hand has finished, the start command of a seated player starts
\* a new hand in which every seated player is active again, has its
\* turn-taken flag cleared and holds exactly 2 hole cards of the new deck.
C33_NothingCarriesOver ==
    HandOver =>
        \A m \in Members :
            Seated(m) => ENABLED (on_message(m, <<"start">>) /\ FreshHand')

\* The amounts a raise is tried with, as the words of the message.
RaiseWords == {"-1"} \cup {Digits[i + 1] : i \in 0..(MaxStack + 1)}

\* C34: every accepted raise has a strictly positive amount: it lifts the
\* raiser's contribution in the active pot above the largest one so far,
\* last_raise is never set to zero or less, and a raise of zero or less that
\* with the call equals the stack is not accepted.
C34_RaisePositive ==
    game_state \in BettingRounds =>
        LET p == better_index + 1
        IN  p \in DOMAIN pots[active_pot] =>
              \A w \in RaiseWords :
                 LET r == command(p, <<"raise", w>>)
                 IN  /\ r.error = "none" =>
                          /\ int(w) > 0
                          /\ r.pots[active_pot][p] > largest_contribution(pots[active_pot])
                     /\ r.last_raise # last_raise => r.last_raise > 0
                     /\ (int(w) <= 0 /\ int(w) + to_call(p) = table_money[p]) =>
                          /\ r.error # "none"
                          /\ r.table_money = table_money
                          /\ r.pots = pots
                          /\ r.last_raise = last_raise

\* A raise of the bettor has just been answered in a state where the bettor's
\* stack equals the call, so that a raise of 0 is exactly all-in.
C34_Witness ==
    /\ game_state \in BettingRounds
    /\ event.type = "message"
    /\ event.content # << >>
    /\ event.content[1] = "raise"
    /\ event.author = players[better_index + 1]
    /\ table_money[better_index + 1] > 0
    /\ to_call(better_index + 1) = table_money[better_index + 1]
    /\ command(better_index + 1, <<"raise", "0">>).all_in

\* Two hands to compare an evaluated hand with, neither holding an ace: a
\* high-card hand and a flush, both 3 4 5 10 Q.
ReferenceHands ==
    {determine_strength(<<Card(1, 3), Card(1, 4), Card(2, 5), Card(1, 10), Card(1, 12)>>),
     determine_strength(<<Card(1, 3), Card(1, 4), Card(1, 5), Card(1, 10), Card(1, 12)>>)}

\* The highest rank among the tie-break cards of an evaluated hand.
TopRank(x) == MaxOf({rank(x.high_cards[i]) : i \in DOMAIN x.high_cards})

\* The evaluated hand is a high-card hand or a flush whose tie-break cards
\* hold no ace.
HighCardOrFlush ==
    /\ Evaluated
    /\ event.result = "none"
    /\ event.content.hand_class \in {PokerHandClass.HIGH_CARD, PokerHandClass.FLUSH}
    /\ \A i \in DOMAIN event.content.high_cards : rank(event.content.high_cards[i]) # 1

\* C35: for high-card hands and for flushes high_cards[0], the card shown as
\* "X high", is the highest tie-break card, and of two hands of the same class
\* the one whose highest card is higher wins, whatever its lower cards.
C35_HighestCardFirst ==
    HighCardOrFlush =>
        LET x == event.content
        IN  /\ rank(x.high_cards[1]) = TopRank(x)
            /\ \A y \in ReferenceHands :
                 (y.hand_class = x.hand_class /\ TopRank(y) < TopRank(x)) => PokerHand_lt(y, x)
            /\ \A y \in ReferenceHands :
                 (y.hand_class = x.hand_class /\ TopRank(x) < TopRank(y)) => PokerHand_lt(x, y)


====
